---- MODULE Spec2Model ----
(***************************************************************************)
(* A model of game.py: the board state (BoardState), the move generators   *)
(* (Rules) and the match loop (GameSimulator).                             *)
(*                                                                         *)
(* The board is the 12-slot array BoardState.state, indexed 0..11 as in    *)
(* the source.  Python lists are sequences, so that repeated elements are  *)
(* kept.  The array is a numpy integer array: an integer division by zero  *)
(* on its elements yields inf or nan (with a warning), not an exception.   *)
(***************************************************************************)
EXTENDS Integers, Sequences, FiniteSets, TLC

VARIABLES state, decode_state, current_round, player_idx, action, verdict,
          pc, result, n_updates, call, arg, ret

vars == <<state, decode_state, current_round, player_idx, action, verdict,
          pc, result, n_updates, call, arg, ret>>

(***************************************************************************)
(* Bounds of the model.                                                    *)
(***************************************************************************)
\* rounds played by the match loop before the model stops exploring
MaxRound == 11
\* rounds played when the agents may move every piece
MaxOpenRound == 1
\* BoardState.update calls made directly on the constructed board
MaxUpdates == 2

(***************************************************************************)
(* BoardState                                                              *)
(***************************************************************************)
N_ROWS == 8
N_COLS == 7

Slots == 0 .. 11

StartState == [i \in Slots |->
                 CASE i = 0 -> 1  [] i = 1 -> 2  [] i = 2 -> 3
                   [] i = 3 -> 4  [] i = 4 -> 5  [] i = 5 -> 3
                   [] i = 6 -> 50 [] i = 7 -> 51 [] i = 8 -> 52
                   [] i = 9 -> 53 [] i = 10 -> 54 [] i = 11 -> 52]

\* a variant that multiplies the row by the number of rows
encode_single_pos_ByRows(cr) == cr[1] + N_ROWS * cr[2]

\* (col, row) -> col + N_COLS * row
encode_single_pos(cr) == cr[1] + N_COLS * cr[2]

\* n -> (n % N_COLS, n // N_COLS); Python's % and // round towards minus
\* infinity, as % and \div do here
decode_single_pos(n) == <<n % N_COLS, n \div N_COLS>>

make_state(st) == [i \in Slots |-> decode_single_pos(st[i])]

\* state[0:5], state[5], state[6:11], state[11]
get_white(st) == [k \in 1 .. 5 |-> st[k - 1]]
get_white_ball(st) == st[5]
get_black(st) == [k \in 1 .. 5 |-> st[k + 5]]
get_black_ball(st) == st[11]

\* x in xs, for a list or array xs
In(x, xs) == \E k \in 1 .. Len(xs) : xs[k] = x

\* np.unique(..., return_counts=True): the count of each distinct value
UniqueCounts(xs) ==
    [v \in {xs[k] : k \in 1 .. Len(xs)} |->
        Cardinality({k \in 1 .. Len(xs) : xs[k] = v})]

\* a variant without the overlap test
is_valid_NoOverlap(st) ==
    LET white == get_white(st)
        white_ball == get_white_ball(st)
        black == get_black(st)
        black_ball == get_black_ball(st)
        max_val == N_ROWS * N_COLS
        white_valid == \A k \in 1 .. 5 : white[k] < max_val /\ white[k] >= 0
        black_valid == \A k \in 1 .. 5 : black[k] < max_val /\ black[k] >= 0
        white_ball_valid == In(white_ball, white)
                              /\ white_ball < max_val /\ white_ball >= 0
        black_ball_valid == In(black_ball, black)
                              /\ white_ball < max_val /\ white_ball >= 0
    IN  white_valid /\ white_ball_valid /\ black_valid /\ black_ball_valid

is_valid(st) ==
    LET white == get_white(st)
        white_ball == get_white_ball(st)
        black == get_black(st)
        black_ball == get_black_ball(st)
        max_val == N_ROWS * N_COLS
        white_valid == \A k \in 1 .. 5 : white[k] < max_val /\ white[k] >= 0
        black_valid == \A k \in 1 .. 5 : black[k] < max_val /\ black[k] >= 0
        white_ball_valid == In(white_ball, white)
                              /\ white_ball < max_val /\ white_ball >= 0
        \* the source tests white_ball's range here, not black_ball's
        black_ball_valid == In(black_ball, black)
                              /\ white_ball < max_val /\ white_ball >= 0
        c == UniqueCounts(white \o black)
        overlap_valid == \A v \in DOMAIN c : c[v] = 1
    IN  white_valid /\ white_ball_valid /\ black_valid
          /\ black_ball_valid /\ overlap_valid

\* a variant whose White goal test starts one cell late (x > 49)
is_termination_state_StrictGoal(st) ==
    IF is_valid(st)
    THEN LET white == get_white(st)
             white_ball == get_white_ball(st)
             black == get_black(st)
             black_ball == get_black_ball(st)
             white_goal == \E k \in 1 .. 5 :
                 white[k] < 56 /\ white[k] > 49 /\ white[k] = white_ball
             black_goal == \E k \in 1 .. 5 :
                 black[k] < 7 /\ black[k] >= 0 /\ black[k] = black_ball
         IN  white_goal \/ black_goal
    ELSE FALSE

\* a variant that forgets White's goal
is_termination_state_BlackOnly(st) ==
    IF is_valid(st)
    THEN LET black == get_black(st)
             black_ball == get_black_ball(st)
             black_goal == \E k \in 1 .. 5 :
                 black[k] < 7 /\ black[k] >= 0 /\ black[k] = black_ball
         IN  black_goal
    ELSE FALSE

is_termination_state(st) ==
    IF is_valid(st)
    THEN LET white == get_white(st)
             white_ball == get_white_ball(st)
             black == get_black(st)
             black_ball == get_black_ball(st)
             white_goal == \E k \in 1 .. 5 :
                 white[k] < 56 /\ white[k] >= 49 /\ white[k] = white_ball
             black_goal == \E k \in 1 .. 5 :
                 black[k] < 7 /\ black[k] >= 0 /\ black[k] = black_ball
         IN  white_goal \/ black_goal
    ELSE FALSE

(***************************************************************************)
(* Rules                                                                   *)
(***************************************************************************)
\* the concatenation of a sequence of sequences: what nested loops append
RECURSIVE CatFrom(_, _)
CatFrom(ss, k) == IF k > Len(ss) THEN <<>> ELSE ss[k] \o CatFrom(ss, k + 1)

Cat(ss) == CatFrom(ss, 1)

\* the eight candidate coordinates, in the order of the source
locs(pos) ==
    << <<pos[1] + 1, pos[2] - 2>>, <<pos[1] - 1, pos[2] - 2>>,
       <<pos[1] + 2, pos[2] - 1>>, <<pos[1] - 2, pos[2] - 1>>,
       <<pos[1] + 2, pos[2] + 1>>, <<pos[1] - 2, pos[2] + 1>>,
       <<pos[1] + 1, pos[2] + 2>>, <<pos[1] - 1, pos[2] + 2>> >>

\* a variant without the upper column bound: moves wrap to the next row
single_piece_actions_NoColBound(st, piece_idx) ==
    IF is_valid(st)
    THEN LET white == get_white(st)
             white_ball == get_white_ball(st)
             black == get_black(st)
             black_ball == get_black_ball(st)
             piece == st[piece_idx]
             pos == decode_single_pos(piece)
             ls == locs(pos)
             Keep(l) == LET enc_loc == encode_single_pos(l)
                        IN  /\ piece /= white_ball
                            /\ piece /= black_ball
                            /\ l[1] >= 0
                            /\ l[2] >= 0 /\ l[2] < N_ROWS
                            /\ ~In(enc_loc, white)
                            /\ ~In(enc_loc, black)
         IN  Cat([k \in 1 .. 8 |->
                    IF Keep(ls[k]) THEN <<encode_single_pos(ls[k])>>
                                   ELSE <<>>])
    ELSE <<>>

\* a variant that lets the block carrying the ball move
single_piece_actions_CarrierMoves(st, piece_idx) ==
    IF is_valid(st)
    THEN LET white == get_white(st)
             black == get_black(st)
             piece == st[piece_idx]
             pos == decode_single_pos(piece)
             ls == locs(pos)
             Keep(l) == LET enc_loc == encode_single_pos(l)
                        IN  /\ l[1] >= 0 /\ l[1] < N_COLS
                            /\ l[2] >= 0 /\ l[2] < N_ROWS
                            /\ ~In(enc_loc, white)
                            /\ ~In(enc_loc, black)
         IN  Cat([k \in 1 .. 8 |->
                    IF Keep(ls[k]) THEN <<encode_single_pos(ls[k])>>
                                   ELSE <<>>])
    ELSE <<>>

single_piece_actions(st, piece_idx) ==
    IF is_valid(st)
    THEN LET white == get_white(st)
             white_ball == get_white_ball(st)
             black == get_black(st)
             black_ball == get_black_ball(st)
             piece == st[piece_idx]
             pos == decode_single_pos(piece)
             ls == locs(pos)
             Keep(l) == LET enc_loc == encode_single_pos(l)
                        IN  /\ piece /= white_ball
                            /\ piece /= black_ball
                            /\ l[1] >= 0 /\ l[1] < N_COLS
                            /\ l[2] >= 0 /\ l[2] < N_ROWS
                            /\ ~In(enc_loc, white)
                            /\ ~In(enc_loc, black)
         IN  Cat([k \in 1 .. 8 |->
                    IF Keep(ls[k]) THEN <<encode_single_pos(ls[k])>>
                                   ELSE <<>>])
    ELSE <<>>

\* (slope == 1) or (slope == -1) for slope = dy / dx.  The operands are numpy
\* integers: dx = 0 gives inf or nan, which equals neither 1 nor -1; for
\* dx /= 0 the quotient is 1 or -1 exactly when dy = dx or dy = -dx.
is_diagonal(dy, dx) == dx /= 0 /\ (dy = dx \/ dy = -dx)

\* the three alignment tests of a position against the ball's position
not_aligned(p, ball_pos) ==
    LET same_col == p[1] = ball_pos[1]
        same_row == p[2] = ball_pos[2]
        diagonal == is_diagonal(ball_pos[2] - p[2], ball_pos[1] - p[1])
    IN  ~same_col /\ ~same_row /\ ~diagonal

\* a variant without the alignment test on the candidate piece
single_ball_actions_NoAlignTest(st, p_idx) ==
    LET white == get_white(st)
        black == get_black(st)
        pieces == IF p_idx = 0 THEN white ELSE black
        ball == IF p_idx = 0 THEN get_white_ball(st) ELSE get_black_ball(st)
        pieces_opp == IF p_idx = 0 THEN black ELSE white
        ball_pos == decode_single_pos(ball)
        PerOpp(piece) ==
            Cat([j \in 1 .. 5 |->
                   IF not_aligned(decode_single_pos(pieces_opp[j]), ball_pos)
                   THEN <<piece>> ELSE <<>>])
        PerPiece(piece) == IF piece /= ball THEN PerOpp(piece) ELSE <<>>
    IN  Cat([k \in 1 .. 5 |-> PerPiece(pieces[k])])

single_ball_actions(st, p_idx) ==
    LET white == get_white(st)
        black == get_black(st)
        pieces == IF p_idx = 0 THEN white ELSE black
        ball == IF p_idx = 0 THEN get_white_ball(st) ELSE get_black_ball(st)
        pieces_opp == IF p_idx = 0 THEN black ELSE white
        ball_pos == decode_single_pos(ball)
        \* the inner loop: the piece is appended once for every opposing
        \* piece that is not aligned with the ball
        PerOpp(piece) ==
            Cat([j \in 1 .. 5 |->
                   IF not_aligned(decode_single_pos(pieces_opp[j]), ball_pos)
                   THEN <<piece>> ELSE <<>>])
        PerPiece(piece) ==
            IF piece /= ball
            THEN LET pos == decode_single_pos(piece)
                     is_same_col == pos[1] = ball_pos[1]
                     is_same_row == pos[2] = ball_pos[2]
                     is_diag == is_diagonal(ball_pos[2] - pos[2],
                                            ball_pos[1] - pos[1])
                 IN  IF is_same_col \/ is_same_row \/ is_diag
                     THEN PerOpp(piece) ELSE <<>>
            ELSE <<>>
    IN  Cat([k \in 1 .. 5 |-> PerPiece(pieces[k])])

\* the elements of a list
Elems(xs) == {xs[k] : k \in 1 .. Len(xs)}

(***************************************************************************)
(* GameSimulator                                                           *)
(***************************************************************************)
generate_valid_actions(st, p_idx) ==
    LET offset == IF p_idx = 0 THEN 0 ELSE 6
        r == IF p_idx = 0 THEN [k \in 1 .. 5 |-> k - 1]
                          ELSE [k \in 1 .. 5 |-> k + 5]
        Tagged(i) == LET moves == single_piece_actions(st, i)
                     IN  [k \in 1 .. Len(moves) |-> <<i - offset, moves[k]>>]
        ball_moves == single_ball_actions(st, p_idx)
    IN  Cat([k \in 1 .. 5 |-> Tagged(r[k])])
          \o [k \in 1 .. Len(ball_moves) |-> <<5, ball_moves[k]>>]

\* a variant that validates against the other side's actions
validate_action_OtherSide(st, a, p_idx) ==
    LET valid_actions == generate_valid_actions(st, 1 - p_idx)
    IN  IF In(a, valid_actions) THEN "True" ELSE "ValueError"

\* a variant that accepts every action
validate_action_AcceptAll(st, a, p_idx) == "True"

\* returns True on the first equal element, raises ValueError otherwise
validate_action(st, a, p_idx) ==
    LET valid_actions == generate_valid_actions(st, p_idx)
    IN  IF In(a, valid_actions) THEN "True" ELSE "ValueError"

\* a variant that decodes the slot before it is written
BoardState_update_StaleDecode(idx, val) ==
    /\ state' = [state EXCEPT ![idx] = val]
    /\ decode_state' =
         [decode_state EXCEPT ![idx] = decode_single_pos(state[idx])]

\* BoardState.update(idx, val)
BoardState_update(idx, val) ==
    /\ state' = [state EXCEPT ![idx] = val]
    /\ decode_state' =
         [decode_state EXCEPT ![idx] = decode_single_pos(state'[idx])]

\* a variant whose side offset is 5
GameSimulator_update_Offset5(a, p_idx) ==
    LET offset_idx == p_idx * 5
    IN  BoardState_update(offset_idx + a[1], a[2])

\* GameSimulator.update(action, player_idx)
GameSimulator_update(a, p_idx) ==
    LET offset_idx == p_idx * 6
    IN  BoardState_update(offset_idx + a[1], a[2])

NoAction == <<-1, -1>>
Unbound == -1

Init ==
    /\ state = StartState
    /\ decode_state = [i \in Slots |-> decode_single_pos(StartState[i])]
    /\ current_round = -1
    /\ player_idx = Unbound
    /\ action = NoAction
    /\ verdict = "none"
    /\ pc = "run"
    /\ result = <<>>
    /\ n_updates = 0
    /\ call = "none"
    /\ arg = <<>>
    /\ ret = <<>>

(***************************************************************************)
(* The agents.  An agent is any policy: it may return a legal action or    *)
(* any other pair.  Every pair outside the legal set takes the same path   *)
(* through run, so the model proposes the legal actions and a few others.  *)
(***************************************************************************)
OtherProposals == { <<0, 35>>, <<5, 3>>, <<2, 56>> }

\* agents that may move every piece
AnyProposal(st, p_idx) ==
    Elems(generate_valid_actions(st, p_idx)) \cup OtherProposals

\* agents that play along fixed routes: White marches its block 0 towards
\* cell 51 and Black its block 1 towards cell 1, stepping only on the cells of
\* the route (in either direction); both pass the ball freely
RouteBlock(p_idx) == IF p_idx = 0 THEN 0 ELSE 1

RouteCells(p_idx) == IF p_idx = 0 THEN {1, 16, 29, 42, 51}
                                  ELSE {51, 38, 23, 10, 1}

RouteProposal(st, p_idx) ==
    {a \in Elems(generate_valid_actions(st, p_idx)) :
        \/ a[1] = 5
        \/ a[1] = RouteBlock(p_idx) /\ a[2] \in RouteCells(p_idx)}
      \cup OtherProposals

\* one iteration of the loop of run, the agent choosing among proposals: the
\* loop test fails to end the match, the round is counted, the agent is
\* asked, its action is validated and applied
Iteration(proposals, max_round) ==
    /\ pc = "run"
    /\ ~is_termination_state(state)
    /\ current_round < max_round
    /\ current_round' = current_round + 1
    /\ player_idx' = current_round' % 2
    /\ \E a \in proposals :
         LET v == validate_action(state, a, player_idx')
         IN  /\ action' = a
             /\ verdict' = v
             /\ CASE verdict' = "ValueError" ->
                       \* the exception leaves run
                       /\ pc' = "raised"
                       /\ UNCHANGED <<state, decode_state, result, n_updates>>
                  [] verdict' = "False" ->
                       /\ pc' = "returned"
                       /\ result' =
                            IF player_idx' = 0
                            THEN <<current_round', "BLACK",
                                   "White provided an invalid action">>
                            ELSE <<current_round', "WHITE",
                                   "Black probided an invalid action">>
                       /\ UNCHANGED <<state, decode_state, n_updates>>
                  [] verdict' = "True" ->
                       /\ GameSimulator_update(a, player_idx')
                       /\ n_updates' = n_updates + 1
                       /\ pc' = "run"
                       /\ UNCHANGED result
    /\ UNCHANGED <<call, arg, ret>>

Round ==
    Iteration(RouteProposal(state, (current_round + 1) % 2), MaxRound)

OpenRound ==
    Iteration(AnyProposal(state, (current_round + 1) % 2), MaxOpenRound)

\* a variant of Return that names the side that did not move last
Return_OtherSide ==
    /\ pc = "run"
    /\ is_termination_state(state)
    /\ IF player_idx = Unbound
       THEN pc' = "raised" /\ UNCHANGED result
       ELSE /\ pc' = "returned"
            /\ result' = IF player_idx = 0
                         THEN <<current_round, "BLACK", "No issues">>
                         ELSE <<current_round, "WHITE", "No issues">>
    /\ UNCHANGED <<state, decode_state, current_round, player_idx, action,
                   verdict, n_updates, call, arg, ret>>

\* a variant of Return that reports the round after the last one
Return_NextRound ==
    /\ pc = "run"
    /\ is_termination_state(state)
    /\ IF player_idx = Unbound
       THEN pc' = "raised" /\ UNCHANGED result
       ELSE /\ pc' = "returned"
            /\ result' = IF player_idx = 0
                         THEN <<current_round + 1, "WHITE", "No issues">>
                         ELSE <<current_round + 1, "BLACK", "No issues">>
    /\ UNCHANGED <<state, decode_state, current_round, player_idx, action,
                   verdict, n_updates, call, arg, ret>>

\* the loop test ends the match: the player who moved last is the winner
Return ==
    /\ pc = "run"
    /\ is_termination_state(state)
    /\ IF player_idx = Unbound
       THEN \* player_idx is read before any assignment
            pc' = "raised" /\ UNCHANGED result
       ELSE /\ pc' = "returned"
            /\ result' = IF player_idx = 0
                         THEN <<current_round, "WHITE", "No issues">>
                         ELSE <<current_round, "BLACK", "No issues">>
    /\ UNCHANGED <<state, decode_state, current_round, player_idx, action,
                   verdict, n_updates, call, arg, ret>>

Next == Round \/ Return

Spec == Init /\ [][Next]_vars

\* the first rounds of a match between agents that may move every piece
NextOpen == OpenRound

SpecOpen == Init /\ [][NextOpen]_vars

(***************************************************************************)
(* Direct use of the board: BoardState.update is a public mutator that     *)
(* checks nothing, so any 12 integers can be placed in the board.          *)
(***************************************************************************)
ProbeVals == {-1, 0, 3, 6, 10, 11, 17, 19, 49, 52, 55, 56}

SetSlot ==
    /\ n_updates < MaxUpdates
    /\ \E idx \in Slots, val \in ProbeVals : BoardState_update(idx, val)
    /\ n_updates' = n_updates + 1
    /\ UNCHANGED <<current_round, player_idx, action, verdict, pc, result,
                   call, arg, ret>>

NextBoard == SetSlot

SpecBoard == Init /\ [][NextBoard]_vars

(***************************************************************************)
(* Direct use of the coordinate maps.                                      *)
(***************************************************************************)
Cells == 0 .. (N_ROWS * N_COLS - 1)
Coords == (0 .. (N_COLS - 1)) \X (0 .. (N_ROWS - 1))

CallEncode ==
    /\ \E cr \in Coords :
         /\ call' = "encode_single_pos"
         /\ arg' = cr
         /\ ret' = encode_single_pos(cr)
    /\ UNCHANGED <<state, decode_state, current_round, player_idx, action,
                   verdict, pc, result, n_updates>>

CallDecode ==
    /\ \E n \in Cells :
         /\ call' = "decode_single_pos"
         /\ arg' = n
         /\ ret' = decode_single_pos(n)
    /\ UNCHANGED <<state, decode_state, current_round, player_idx, action,
                   verdict, pc, result, n_updates>>

NextCodec == CallEncode \/ CallDecode

SpecCodec == Init /\ [][NextCodec]_vars

(***************************************************************************)
(* Direct use of the move generators: a board is arranged by update calls, *)
(* then one of the four functions is called on it.  None of them assigns   *)
(* to the board.                                                           *)
(***************************************************************************)
\* update calls that arrange the board before a generator is called
MaxArrange == 1

Arrange ==
    /\ call = "none"
    /\ n_updates < MaxArrange
    /\ \E idx \in Slots, val \in ProbeVals : BoardState_update(idx, val)
    /\ n_updates' = n_updates + 1
    /\ UNCHANGED <<current_round, player_idx, action, verdict, pc, result,
                   call, arg, ret>>

\* a variant that tries a destination on the board and does not restore it
CallSinglePieceActions_Writes ==
    /\ call = "none"
    /\ \E i \in Slots :
         /\ call' = "single_piece_actions"
         /\ arg' = i
         /\ ret' = single_piece_actions(state, i)
         /\ IF ret' = <<>>
            THEN UNCHANGED <<state, decode_state>>
            ELSE BoardState_update(i, ret'[Len(ret')])
    /\ UNCHANGED <<current_round, player_idx, action, verdict, pc, result,
                   n_updates>>

CallSinglePieceActions ==
    /\ call = "none"
    /\ \E i \in Slots :
         /\ call' = "single_piece_actions"
         /\ arg' = i
         /\ ret' = single_piece_actions(state, i)
    /\ UNCHANGED <<state, decode_state, current_round, player_idx, action,
                   verdict, pc, result, n_updates>>

CallSingleBallActions ==
    /\ call = "none"
    /\ \E p \in {0, 1} :
         /\ call' = "single_ball_actions"
         /\ arg' = p
         /\ ret' = single_ball_actions(state, p)
    /\ UNCHANGED <<state, decode_state, current_round, player_idx, action,
                   verdict, pc, result, n_updates>>

CallGenerateValidActions ==
    /\ call = "none"
    /\ \E p \in {0, 1} :
         /\ call' = "generate_valid_actions"
         /\ arg' = p
         /\ ret' = generate_valid_actions(state, p)
    /\ UNCHANGED <<state, decode_state, current_round, player_idx, action,
                   verdict, pc, result, n_updates>>

CallValidateAction ==
    /\ call = "none"
    /\ \E p \in {0, 1} :
         \E a \in AnyProposal(state, p) :
            /\ call' = "validate_action"
            /\ arg' = <<a, p>>
            /\ ret' = validate_action(state, a, p)
    /\ UNCHANGED <<state, decode_state, current_round, player_idx, action,
                   verdict, pc, result, n_updates>>

NextRules ==
    \/ Arrange
    \/ CallSinglePieceActions
    \/ CallSingleBallActions
    \/ CallGenerateValidActions
    \/ CallValidateAction

SpecRules == Init /\ [][NextRules]_vars

(***************************************************************************)
(* The board invariants and the movement rules as the specification words  *)
(* them, stated on cells and coordinates without the program's functions.  *)
(***************************************************************************)
WhiteSlots == 0 .. 4
BlackSlots == 6 .. 10
BlockSlots == WhiteSlots \cup BlackSlots

AllInRange(st) == \A i \in Slots : st[i] >= 0 /\ st[i] <= 55

BallsOnOwnBlocks(st) ==
    /\ \E i \in WhiteSlots : st[i] = st[5]
    /\ \E i \in BlackSlots : st[i] = st[11]

BlocksDistinct(st) ==
    \A i, j \in BlockSlots : i /= j => st[i] /= st[j]

ThreeInvariants(st) ==
    AllInRange(st) /\ BallsOnOwnBlocks(st) /\ BlocksDistinct(st)

WhiteOnGoalRow(st) == st[5] >= 49 /\ st[5] <= 55
BlackOnGoalRow(st) == st[11] >= 0 /\ st[11] <= 6

ColOf(n) == n % 7
RowOf(n) == n \div 7
Abs(x) == IF x < 0 THEN -x ELSE x
Sgn(x) == IF x < 0 THEN -1 ELSE IF x > 0 THEN 1 ELSE 0

\* the ball slot of the side that owns block slot i
BallSlotOf(i) == IF i \in WhiteSlots THEN 5 ELSE 11

\* the cells a knight on cell n reaches on the 7x8 board
KnightCells(n) ==
    {d \in 0 .. 55 :
        {Abs(ColOf(d) - ColOf(n)), Abs(RowOf(d) - RowOf(n))} = {1, 2}}

Occupied(st) == {st[i] : i \in BlockSlots}

BlockDestinations(st, i) ==
    IF st[i] = st[BallSlotOf(i)] THEN {}
    ELSE KnightCells(st[i]) \ Occupied(st)

\* cells b and c share a row, a column or a diagonal of slope +1 or -1
OnALine(b, c) ==
    \/ ColOf(b) = ColOf(c)
    \/ RowOf(b) = RowOf(c)
    \/ Abs(ColOf(b) - ColOf(c)) = Abs(RowOf(b) - RowOf(c))

\* the cells strictly between two distinct cells on a line
Between(b, c) ==
    LET dc == Sgn(ColOf(c) - ColOf(b))
        dr == Sgn(RowOf(c) - RowOf(b))
        n  == IF ColOf(b) = ColOf(c) THEN Abs(RowOf(c) - RowOf(b))
                                     ELSE Abs(ColOf(c) - ColOf(b))
    IN  {(ColOf(b) + k * dc) + 7 * (RowOf(b) + k * dr) : k \in 1 .. (n - 1)}

OwnBlocks(st, side) ==
    {st[i] : i \in (IF side = 0 THEN WhiteSlots ELSE BlackSlots)}
OppBlocks(st, side) == OwnBlocks(st, 1 - side)
BallOf(st, side) == IF side = 0 THEN st[5] ELSE st[11]

PassDestinations(st, side) ==
    {c \in OwnBlocks(st, side) :
        /\ c /= BallOf(st, side)
        /\ OnALine(BallOf(st, side), c)
        /\ Between(BallOf(st, side), c) \cap OppBlocks(st, side) = {}}

SideName(p) == IF p = 0 THEN "WHITE" ELSE "BLACK"

(***************************************************************************)
(* Claims about the board predicates and the move generators, checked on   *)
(* the boards of SpecBoard.                                                *)
(***************************************************************************)

\* C5: for every 12 integers placed in the board, is_valid() is true exactly
\* when every value is in 0..55, each ball is on a block of its own side and
\* the ten blocks are pairwise distinct.
C5_IsValidIffThreeInvariants == is_valid(state) <=> ThreeInvariants(state)

\* a board whose Black ball is out of range is reported invalid
C5_Witness ==
    /\ n_updates > 0
    /\ state[11] = 56
    /\ \A i \in Slots \ {11} : state[i] = StartState[i]
    /\ ~is_valid(state)

\* C6: is_termination_state() is true exactly when the board is valid and
\* White's ball is in cells 49..55 or Black's ball is in cells 0..6; it is
\* false for every invalid board and for the start position.
C6_TerminalIffValidAndGoal ==
    /\ is_termination_state(state)
         <=> (is_valid(state)
                /\ (WhiteOnGoalRow(state) \/ BlackOnGoalRow(state)))
    /\ ~ThreeInvariants(state) => ~is_termination_state(state)
    /\ state = StartState => ~is_termination_state(state)

\* a valid board with White's block and ball on cell 49 is terminal
C6_Witness ==
    /\ state[0] = 49 /\ state[5] = 49
    /\ ThreeInvariants(state)
    /\ is_termination_state(state)

\* C7: on a valid board, single_piece_actions of a block slot returns exactly
\* the knight destinations of the block that are on the board and free of
\* blocks of both sides, each once, and nothing for the block that carries
\* its side's ball; from the start position slot 0 reaches cells 14 and 16.
C7_BlockMovesAreFreeKnightCells ==
    /\ ThreeInvariants(state) =>
         \A i \in BlockSlots :
            LET moves == single_piece_actions(state, i)
            IN  /\ Elems(moves) = BlockDestinations(state, i)
                /\ Len(moves) = Cardinality(Elems(moves))
                /\ state[i] = state[BallSlotOf(i)] => moves = <<>>
    /\ state = StartState =>
         {14, 16} \subseteq Elems(single_piece_actions(state, 0))

\* a block on the right edge (cell 6): only the two destinations on the
\* board are returned
C7_Witness ==
    /\ ThreeInvariants(state)
    /\ state[0] = 6
    /\ Elems(single_piece_actions(state, 0)) = {11, 19}
    /\ single_piece_actions(state, 2) = <<>>

\* C8: on a valid board, single_ball_actions returns cell c iff c holds a
\* block of the side other than the ball carrier, on a line with the ball,
\* with no opposing block on the segment between the ball and c.
C8_PassesBlockedOnlyBetween ==
    ThreeInvariants(state) =>
        \A side \in {0, 1} :
            Elems(single_ball_actions(state, side))
              = PassDestinations(state, side)

\* C9: on a board that is not valid, single_piece_actions of every slot and
\* single_ball_actions of both sides return no action.
C9_InvalidBoardNoActions ==
    ~is_valid(state) =>
        /\ \A i \in Slots : single_piece_actions(state, i) = <<>>
        /\ \A side \in {0, 1} : single_ball_actions(state, side) = <<>>

\* C10: encode_single_pos and decode_single_pos are mutually inverse: a cell
\* index of 0..55 decoded and encoded again is itself, and a coordinate of
\* the 7x8 board encoded and decoded again is itself.
C10_RoundTrip ==
    /\ call = "decode_single_pos" => encode_single_pos(ret) = arg
    /\ call = "encode_single_pos" => decode_single_pos(ret) = arg

\* the last cell: (6, 7) is encoded as 55
C10_Witness ==
    /\ call = "encode_single_pos"
    /\ arg = <<6, 7>>
    /\ ret = 55
    /\ decode_single_pos(ret) = <<6, 7>>

(***************************************************************************)
(* Claims about the match loop.                                            *)
(***************************************************************************)

\* C1: from the start layout, after any sequence of rounds in which the
\* side to move proposes an accepted action and update applies it, the board
\* satisfies is_valid(): values in 0..55, each ball on a block of its own
\* side, the ten blocks pairwise distinct.
C1_BoardStaysValid == is_valid(state) /\ ThreeInvariants(state)

\* White has passed its ball and Black has moved a block
C1_Witness ==
    /\ current_round >= 1
    /\ verdict = "True"
    /\ state[5] /= StartState[5]
    /\ \E i \in BlackSlots : state[i] /= StartState[i]
    /\ ThreeInvariants(state)

\* C2: an action outside the legal-action set of the side to move ends the
\* match with a returned result whose winner is the other side and whose
\* round is the round of the attempt; no error is raised.
C2_IllegalActionForfeits ==
    (action /= NoAction /\ verdict /= "True") =>
        /\ pc = "returned"
        /\ result[1] = current_round
        /\ result[2] = SideName(1 - player_idx)

\* C3: when run returns with reason "No issues" the winner is the side that
\* made the last applied move and its ball is on its goal row; an applied
\* move never makes the board terminal for the side that did not move.
C3_WinnerMovedLast ==
    /\ (pc = "returned" /\ result[3] = "No issues") =>
          /\ verdict = "True"
          /\ player_idx = current_round % 2
          /\ state[6 * player_idx + action[1]] = action[2]
          /\ result[2] = SideName(player_idx)
          /\ result[2] = "WHITE" => WhiteOnGoalRow(state)
          /\ result[2] = "BLACK" => BlackOnGoalRow(state)
    /\ (verdict = "True" /\ is_termination_state(state)) =>
          /\ player_idx = 0 => WhiteOnGoalRow(state) /\ ~BlackOnGoalRow(state)
          /\ player_idx = 1 => BlackOnGoalRow(state) /\ ~WhiteOnGoalRow(state)

\* Black wins in round 11 by passing its ball to a block on row 0
C3_Witness ==
    /\ pc = "returned"
    /\ result = <<11, "BLACK", "No issues">>
    /\ action[1] = 5
    /\ BlackOnGoalRow(state)

\* C4: the first agent asked is White's in round 0; every request is for
\* round r + 1 after round r, of White's agent iff the round is even, the
\* other side than in the round before, and the action is accepted iff it
\* is a legal action of that same side.
C4_SidesAlternate ==
    [][current_round' /= current_round =>
         /\ current_round' = current_round + 1
         /\ current_round = -1 => player_idx' = 0
         /\ player_idx' = 0 <=> current_round' % 2 = 0
         /\ player_idx' = 1 <=> current_round' % 2 = 1
         /\ player_idx /= Unbound => player_idx' = 1 - player_idx
         /\ \A side \in {player_idx'}, a \in {action'} :
              verdict' = "True"
                <=> a \in Elems(generate_valid_actions(state, side))
      ]_vars

\* Black's agent is asked in round 1 and its action is accepted
C4_Witness ==
    /\ current_round = 1
    /\ player_idx = 1
    /\ verdict = "True"
    /\ \E i \in BlackSlots \cup {11} : state[i] /= StartState[i]

(***************************************************************************)
(* Claims about frames, the decoded cache and the ball generator.          *)
(***************************************************************************)
RulesCalls == {"single_piece_actions", "single_ball_actions",
               "generate_valid_actions", "validate_action"}

\* C11: a call of single_piece_actions, single_ball_actions,
\* generate_valid_actions or validate_action leaves all 12 slots of the
\* encoded state and of the decoded cache as they were, for every board and
\* argument.
C11_RulesLeaveBoardUnchanged ==
    [][(call' \in RulesCalls /\ call = "none") =>
          /\ \A i \in Slots : state'[i] = state[i]
          /\ \A i \in Slots : decode_state'[i] = decode_state[i]
      ]_vars

\* single_piece_actions has returned destinations for slot 0 of an arranged
\* board
C11_Witness ==
    /\ call = "single_piece_actions"
    /\ arg = 0
    /\ n_updates = 1
    /\ state[0] = 17
    /\ ret /= <<>>

\* C12: after construction and after any sequence of update calls the decoded
\* cache is the decoding of the encoded state in every slot, and an update
\* call changes only the slot it is given, in both.
C12_CacheFollowsState ==
    [][/\ \A i \in Slots : decode_state[i] = decode_single_pos(state[i])
       /\ \A i \in Slots : decode_state'[i] = decode_single_pos(state'[i])
       /\ n_updates' /= n_updates =>
            \E idx \in Slots :
               \A j \in Slots \ {idx} :
                  state'[j] = state[j] /\ decode_state'[j] = decode_state[j]
      ]_vars

\* slot 0 was written twice, last with cell 49, and is cached as (0, 7)
C12_Witness ==
    /\ n_updates = 2
    /\ state[0] = 49
    /\ decode_state[0] = <<0, 7>>
    /\ \A i \in Slots \ {0} : state[i] = StartState[i]

\* C13: on a valid board, when an opposing block shares the row, the column
\* or a diagonal with the ball's cell, single_ball_actions returns no
\* destination: the aligned block removes every candidate wherever the other
\* four opposing blocks stand.
C13_AlignedOpponentRemovesCandidates ==
    ThreeInvariants(state) =>
        \A side \in {0, 1} :
            (\E o \in OppBlocks(state, side) :
                 OnALine(BallOf(state, side), o))
              => single_ball_actions(state, side) = <<>>

\* C14: on a valid board every cell returned by single_ball_actions is the
\* cell of one of the side's own blocks, is not the ball's cell and is on a
\* row, column or diagonal with the ball's cell.
C14_PassTargetsAreAlignedOwnBlocks ==
    ThreeInvariants(state) =>
        \A side \in {0, 1} :
            \A c \in Elems(single_ball_actions(state, side)) :
                /\ c \in OwnBlocks(state, side)
                /\ c \notin OppBlocks(state, side)
                /\ c /= BallOf(state, side)
                /\ OnALine(BallOf(state, side), c)

\* White's block on cell 49 is not on a line with the ball on cell 3 and is
\* not returned, the block on cell 2 is
C14_Witness ==
    /\ ThreeInvariants(state)
    /\ state[0] = 49
    /\ state[5] = 3
    /\ 49 \notin Elems(single_ball_actions(state, 0))
    /\ 2 \in Elems(single_ball_actions(state, 0))

\* the board is terminal, in the words of the specification
Terminal(st) ==
    ThreeInvariants(st) /\ (WhiteOnGoalRow(st) \/ BlackOnGoalRow(st))

\* the side asked next by the match loop
SideToMove == (current_round + 1) % 2

\* C15: in every state reached by legal play, and in the start position, the
\* legal actions returned by generate_valid_actions for the side to move
\* hold each (relative_index, destination) pair at most once.
C15_LegalActionsHaveNoDuplicates ==
    pc = "run" =>
        LET actions == generate_valid_actions(state, SideToMove)
        IN  Len(actions) = Cardinality(Elems(actions))

\* C16: every action (r, d) of generate_valid_actions(side) has r in 0..5 and
\* d in 0..55, a block action comes from single_piece_actions of slot
\* 6 * side + r and a ball action from single_ball_actions; update writes d
\* into slot 6 * side + r and leaves the other 11 slots as they were.
C16_TagsAgree ==
    pc = "run" =>
        \A side \in {0, 1} :
            LET tagged == Elems(generate_valid_actions(state, side))
                blocks == UNION {
                    {<<r, d>> :
                       d \in Elems(single_piece_actions(state, 6 * side + r))}
                    : r \in 0 .. 4}
                ball == {<<5, d>> :
                           d \in Elems(single_ball_actions(state, side))}
            IN  /\ tagged = blocks \cup ball
                /\ \A a \in tagged : a[1] \in 0 .. 5 /\ a[2] \in 0 .. 55

C16_UpdateWritesTaggedSlot ==
    \A a \in {action'}, side \in {player_idx'} :
        (current_round' /= current_round /\ verdict' = "True") =>
            \A j \in Slots :
                state'[j] = IF j = 6 * side + a[1] THEN a[2] ELSE state[j]

C16_TaggingAndApplyingAgree ==
    [](C16_TagsAgree) /\ [][C16_UpdateWritesTaggedSlot]_vars

\* Black has moved one of its blocks with an action tagged 0..4
C16_Witness ==
    /\ current_round = 1
    /\ player_idx = 1
    /\ verdict = "True"
    /\ action[1] \in 0 .. 4
    /\ state[6 + action[1]] = action[2]
    /\ state[6 + action[1]] /= StartState[6 + action[1]]
    /\ \A j \in BlackSlots \ {6 + action[1]} : state[j] = StartState[j]

\* C17: on a terminal board no move is requested and nothing is written;
\* every accepted action is applied by one write that changes exactly one
\* slot, and the board changes in no other step.
C17_OneWritePerAcceptedAction ==
    [][/\ Terminal(state) =>
            /\ current_round' = current_round
            /\ action' = action
            /\ state' = state
            /\ decode_state' = decode_state
       /\ (current_round' /= current_round /\ verdict' = "True") =>
            /\ Cardinality({j \in Slots : state'[j] /= state[j]}) = 1
            /\ n_updates' = n_updates + 1
       /\ state' /= state =>
            /\ current_round' = current_round + 1
            /\ verdict' = "True"
            /\ n_updates' = n_updates + 1
      ]_vars

\* White's ball is on row 7 and run has returned
C17_Witness ==
    /\ pc = "returned"
    /\ Terminal(state)
    /\ WhiteOnGoalRow(state)
    /\ n_updates = current_round + 1

\* C18, as claimed: the round counter starts at 0 and is advanced after each
\* applied action, so the round reported with "No issues" is the number of
\* actions applied.
C18_RoundIsActionsApplied ==
    (pc = "returned" /\ result[3] = "No issues") => result[1] = n_updates

\* C18, amended: the round counter starts at -1 and is advanced before each
\* request, so the round reported with "No issues" is the round of the last
\* applied action, one less than the number of actions applied.
C18_RoundIsLastAppliedRound ==
    /\ pc = "run" => current_round = n_updates - 1
    /\ (pc = "returned" /\ result[3] = "No issues") =>
          /\ result[1] = current_round
          /\ result[1] = n_updates - 1

\* White wins with the eleventh applied action, in round 10
C18_Witness ==
    /\ pc = "returned"
    /\ result = <<10, "WHITE", "No issues">>
    /\ n_updates = 11

\* C19: an action outside the legal-action set of the side to move is never
\* applied: when the match ends on it, the 12 slots are what they were when
\* the side was asked.
C19_RejectedActionNotApplied ==
    [][\A a \in {action'}, side \in {player_idx'} :
          (/\ current_round' /= current_round
           /\ a \notin Elems(generate_valid_actions(state, side))) =>
              /\ \A i \in Slots : state'[i] = state[i]
              /\ \A i \in Slots : decode_state'[i] = decode_state[i]
              /\ n_updates' = n_updates
              /\ pc' /= "run"
      ]_vars

\* the match ends in round 3 on an action outside the legal set
C19_Witness ==
    /\ pc = "raised"
    /\ verdict = "ValueError"
    /\ current_round = 3
    /\ action = <<2, 56>>
    /\ state /= StartState

====
